---- MODULE Spec2Model ----
(***************************************************************************)
(* Model of server/api/gemini.ts: the sliding-window RateLimiter, the      *)
(* Nanonets response extractor and the analyzeImage retry loop.            *)
(* Time is the value of Date.now() in milliseconds.                        *)
(***************************************************************************)
EXTENDS Integers, Sequences, FiniteSets, TLC

VARIABLES
    now,        \* Date.now()
    requests,   \* RateLimiter.requests of the shared rateLimiter
    admitted,   \* history: every timestamp canMakeRequest has pushed, in order
    last,       \* history: the most recent limiter call and what it returned
    env,        \* process.env: NANONETS_API_KEY and NANONETS_MODEL_ID
    pc,         \* per analyzeImage call: where the call is suspended
    args,       \* per call: the apiKey and modelId arguments
    attempt,    \* per call: the loop variable attempt
    resp,       \* per call: the response the call is reading
    wakeAt,     \* per call: when the pending sleep(delay) timer fires
    result,     \* per call: the value the returned promise resolved to
    log,        \* per call: history of fetches, outcomes and sleeps
    probe       \* the inputs and outputs of a pure function evaluated on its own

vars == <<now, requests, admitted, last, env, pc, args, attempt, resp, wakeAt, result, log,
          probe>>

limiterVars == <<requests, admitted, last>>
callVars == <<pc, args, attempt, resp, wakeAt, result, log>>

----------------------------------------------------------------------------
(* Bounds of the model *)

MaxClock == 4000
TickMs == 1000
MaxCalls == 2
MaxAttemptIndex == 4
MaxRuns == 2

(* OCR_RATE_LIMIT_CONFIG of ../config/rate-limit *)

maxRequests == 2
windowMs == 2000
maxRetries == 2
baseDelay == 1000
backoffMultiplier == 2
maxDelay == 10000

Calls == 1 .. MaxCalls

----------------------------------------------------------------------------
(* Generic helpers *)

None == [some |-> FALSE]
Some(v) == [some |-> TRUE, v |-> v]

Min2(a, b) == IF a <= b THEN a ELSE b
Max2(a, b) == IF a >= b THEN a ELSE b

RECURSIVE Pow(_, _)
Pow(b, e) == IF e = 0 THEN 1 ELSE b * Pow(b, e - 1)

RECURSIVE SeqMin(_)
SeqMin(s) == IF Len(s) = 1 THEN s[1] ELSE Min2(s[1], SeqMin(Tail(s)))

----------------------------------------------------------------------------
(* class RateLimiter *)

\* this.requests.filter(time => now - time < this.windowMs)
PruneKeepsBoundary(reqs, t) == SelectSeq(reqs, LAMBDA time : t - time <= windowMs)
Prune(reqs, t) == SelectSeq(reqs, LAMBDA time : t - time < windowMs)

\* the test that denies: this.requests.length >= this.maxRequests
DeniesOffByOne(reqs) == Len(reqs) > maxRequests
Denies(reqs) == Len(reqs) >= maxRequests

\* canMakeRequest(): the value it returns when called on record reqs at time t
CanMakeRequestRet(reqs, t) == ~Denies(Prune(reqs, t))

\* canMakeRequest() with unshift in place of push
AfterPrepends(reqs, t) ==
    IF Denies(Prune(reqs, t)) THEN Prune(reqs, t) ELSE <<t>> \o Prune(reqs, t)

\* canMakeRequest(): the record it leaves
AfterAlwaysRecords(reqs, t) == Append(Prune(reqs, t), t)
AfterCanMakeRequest(reqs, t) ==
    IF Denies(Prune(reqs, t)) THEN Prune(reqs, t) ELSE Append(Prune(reqs, t), t)

\* getTimeUntilNextRequest()
TimeUntilNoClamp(reqs, t) ==
    IF Len(reqs) < maxRequests THEN 0 ELSE windowMs - (t - SeqMin(reqs))
getTimeUntilNextRequest(reqs, t) ==
    IF Len(reqs) < maxRequests
    THEN 0
    ELSE Max2(0, windowMs - (t - SeqMin(reqs)))

\* the effect of one canMakeRequest() call on the limiter and its history
LimiterCheck ==
    /\ requests' = AfterCanMakeRequest(requests, now)
    /\ admitted' = IF CanMakeRequestRet(requests, now) THEN Append(admitted, now) ELSE admitted

----------------------------------------------------------------------------
(* Initial state: a fresh module instance, no call made yet *)

EnvKeys == {"", "env-key"}
EnvModels == {"", "env-model"}

InitProgram ==
    /\ now = 0
    /\ requests = <<>>
    /\ admitted = <<>>
    /\ last = [op |-> "none"]
    /\ env \in [key : EnvKeys, model : EnvModels]
    /\ pc = [c \in Calls |-> "idle"]
    /\ args = [c \in Calls |-> [apiKey |-> "", modelId |-> ""]]
    /\ attempt = [c \in Calls |-> 0]
    /\ resp = [c \in Calls |-> None]
    /\ wakeAt = [c \in Calls |-> 0]
    /\ result = [c \in Calls |-> None]
    /\ log = [c \in Calls |-> <<>>]

Init == InitProgram /\ probe = [fn |-> "none"]

\* the clock advances
Tick ==
    /\ now + TickMs <= MaxClock
    /\ now' = now + TickMs
    /\ UNCHANGED <<limiterVars, env, probe, callVars>>

----------------------------------------------------------------------------
(* The limiter driven directly *)

CanMakeRequest ==
    /\ LimiterCheck
    /\ last' = [op |-> "canMakeRequest", at |-> now, before |-> requests,
                ret |-> CanMakeRequestRet(requests, now)]
    /\ UNCHANGED <<now, env, probe, callVars>>

GetTimeUntilNextRequest ==
    /\ last' = [op |-> "getTimeUntilNextRequest", at |-> now, before |-> requests,
                ret |-> getTimeUntilNextRequest(requests, now)]
    /\ UNCHANGED <<now, requests, admitted, env, probe, callVars>>

NextLimiter == Tick \/ CanMakeRequest \/ GetTimeUntilNextRequest

SpecLimiter == Init /\ [][NextLimiter]_vars

----------------------------------------------------------------------------
(* Strings, as JavaScript computes on them *)

UpperCase == "ABCDEFGHIJKLMNOPQRSTUVWXYZ"
LowerCase == "abcdefghijklmnopqrstuvwxyz"

CharAt(s, i) == SubSeq(s, i, i)

LowerOf == [ch \in {CharAt(UpperCase, i) : i \in 1 .. 26} |->
              CharAt(LowerCase, CHOOSE i \in 1 .. 26 : CharAt(UpperCase, i) = ch)]

ToLowerChar(ch) == IF ch \in DOMAIN LowerOf THEN LowerOf[ch] ELSE ch

RECURSIVE toLowerCase(_)
toLowerCase(s) ==
    IF Len(s) = 0 THEN ""
    ELSE IF Len(s) = 1 THEN ToLowerChar(s)
    ELSE LET h == Len(s) \div 2
         IN  toLowerCase(SubSeq(s, 1, h)) \o toLowerCase(SubSeq(s, h + 1, Len(s)))

Contains(s, sub) ==
    \E i \in 1 .. (Len(s) - Len(sub) + 1) : SubSeq(s, i, i + Len(sub) - 1) = sub

\* s.slice(0, n)
slice0(s, n) == IF Len(s) <= n THEN s ELSE SubSeq(s, 1, n)

IsSpace(ch) == ch \in {" ", "\n", "\t", "\r"}

\* s.trim()
trim(s) ==
    LET kept == {i \in 1 .. Len(s) : ~IsSpace(CharAt(s, i))}
    IN  IF kept = {} THEN ""
        ELSE SubSeq(s, CHOOSE i \in kept : \A j \in kept : i <= j,
                       CHOOSE i \in kept : \A j \in kept : i >= j)

RECURSIVE Repeat(_, _)
Repeat(s, n) ==
    IF n = 0 THEN ""
    ELSE IF n % 2 = 0 THEN LET h == Repeat(s, n \div 2) IN h \o h
    ELSE s \o Repeat(s, n - 1)

RECURSIVE join(_, _)
join(ss, sep) ==
    IF Len(ss) = 0 THEN ""
    ELSE IF Len(ss) = 1 THEN ss[1]
    ELSE ss[1] \o sep \o join(Tail(ss), sep)

----------------------------------------------------------------------------
(* Decoded JSON values: null, strings, numbers, arrays, objects *)

JNull == [t |-> "null"]
JStr(s) == [t |-> "string", v |-> s]
JNum(n) == [t |-> "number", n |-> n]
JArr(elems) == [t |-> "array", a |-> elems]
JObj(fields) == [t |-> "object", f |-> fields]

\* !node is false
Truthy(node) ==
    CASE node.t = "null" -> FALSE
      [] node.t = "string" -> node.v # ""
      [] node.t = "number" -> node.n # 0
      [] OTHER -> TRUE

\* typeof node[name] === 'string' ? [node[name]] : []
StringField(node, name) ==
    IF node.t = "object" /\ name \in DOMAIN node.f /\ node.f[name].t = "string"
    THEN <<node.f[name].v>>
    ELSE <<>>

\* Array.isArray(node[name]) ? node[name] : []
ArrayField(node, name) ==
    IF node.t = "object" /\ name \in DOMAIN node.f /\ node.f[name].t = "array"
    THEN node.f[name].a
    ELSE <<>>

\* the strings collectFromNode pushes onto texts, in order
RECURSIVE collectFromNode(_)
collectFromNode(node) ==
    IF ~Truthy(node) THEN <<>>
    ELSE IF node.t = "string" THEN <<node.v>>
    ELSE
        LET own == StringField(node, "text") \o StringField(node, "ocr_text")
                       \o StringField(node, "fullText")
            elems == ArrayField(node, "result") \o ArrayField(node, "results")
                       \o ArrayField(node, "predictions") \o ArrayField(node, "fields")
                       \o ArrayField(node, "pages") \o ArrayField(node, "page_data")
                       \o ArrayField(node, "lines")
            F[i \in 0 .. Len(elems)] ==
                IF i = 0 THEN <<>> ELSE F[i - 1] \o collectFromNode(elems[i])
        IN  own \o F[Len(elems)]

\* the extractor without .filter(Boolean)
extractKeepsEmpty(responseData) ==
    LET texts == collectFromNode(responseData)
        trimmed == [i \in 1 .. Len(texts) |-> trim(texts[i])]
        combined == trim(join(trimmed, "\n"))
    IN  IF combined = "" THEN None ELSE Some(combined)

extractTextFromNanonets(responseData) ==
    LET texts == collectFromNode(responseData)
        trimmed == [i \in 1 .. Len(texts) |-> trim(texts[i])]
        combined == trim(join(SelectSeq(trimmed, LAMBDA x : x # ""), "\n"))
    IN  IF combined = "" THEN None ELSE Some(combined)

----------------------------------------------------------------------------
(* ../config/rate-limit: the retryability predicate and the message templates *)

isRateLimitError(error) ==
    \/ error.code = 429
    \/ Contains(toLowerCase(error.message), "rate limit")

rateLimitExceeded(waitTime) ==
    "Rate limit exceeded. Try again in " \o ToString(waitTime) \o "ms."

maxRetriesExceeded == "Maximum retries exceeded. Please try again later."

----------------------------------------------------------------------------
(* analyzeImage *)

DEFAULT_NANONETS_MODEL == "Nanonets-ocr2-7B"

\* a || b on strings
OrElse(a, b) == IF a # "" THEN a ELSE b

resolvedModelId(modelId, e) == OrElse(modelId, OrElse(e.model, DEFAULT_NANONETS_MODEL))

getNanonetsEndpoint(modelId, e) ==
    "https://app.nanonets.com/api/v2/OCR/Model/" \o resolvedModelId(modelId, e) \o "/LabelFile/"

\* apiKey || process.env.NANONETS_API_KEY || ''
nanonetsKey(apiKey, e) == OrElse(apiKey, OrElse(e.key, ""))

\* Math.min(baseDelay * Math.pow(backoffMultiplier, attempt), maxDelay)
BackoffNoCap(base, mult, cap, a) == base * Pow(mult, a)
BackoffLinear(base, mult, cap, a) == Min2(base * mult * a, cap)
BackoffDelay(base, mult, cap, a) == Min2(base * Pow(mult, a), cap)

delay(a) == BackoffDelay(baseDelay, backoffMultiplier, maxDelay, a)

Event(kind, n, d) == [e |-> kind, n |-> n, d |-> d]

\* the result objects analyzeImage returns
Failure(message) == [text |-> None, error |-> Some(message)]
Success(text) == [text |-> Some(text), error |-> None]

RateLimitedResult(reqs, t) == Failure(rateLimitExceeded(getTimeUntilNextRequest(reqs, t)))
MissingKeyResult == Failure("API key missing. Please configure the Nanonets API key.")
UnexpectedResult == Failure("An unexpected error occurred while processing the image.")
NoTextResult ==
    Failure("No text extracted from the image. Try a clearer image or manual entry.")
MaxRetriesResult == Failure(maxRetriesExceeded)

\* the terminal result of a non-2xx response
ApiErrorNoSlice(status, errorText) ==
    Failure("API Error (" \o ToString(status) \o "): "
              \o OrElse(errorText, "Failed to call Nanonets OCR API") \o ".")
ApiErrorResult(status, errorText) ==
    LET sanitizedError == OrElse(slice0(errorText, 500), "Failed to call Nanonets OCR API")
        modelHint ==
            IF status = 400 /\ Contains(toLowerCase(errorText), "model id")
            THEN " Verify the Nanonets model ID by setting NANONETS_MODEL_ID or the x-nanonets-model header."
            ELSE ""
    IN  Failure("API Error (" \o ToString(status) \o "): " \o sanitizedError \o "." \o modelHint)

\* the result of a decoded 2xx body
ExtractedUnchecked(data) ==
    LET extractedText == extractTextFromNanonets(data)
    IN  IF extractedText.some THEN Success(extractedText.v) ELSE Success("")
ExtractedResult(data) ==
    LET extractedText == extractTextFromNanonets(data)
    IN  IF extractedText.some /\ extractedText.v # "" THEN Success(extractedText.v) ELSE NoTextResult

\* return res (the locals of the call go with it)
Return(c, res, lg) ==
    /\ pc' = [pc EXCEPT ![c] = "done"]
    /\ result' = [result EXCEPT ![c] = Some(res)]
    /\ log' = [log EXCEPT ![c] = lg]
    /\ attempt' = [attempt EXCEPT ![c] = 0]
    /\ resp' = [resp EXCEPT ![c] = None]
    /\ wakeAt' = [wakeAt EXCEPT ![c] = 0]

\* the loop test and, when it passes, the body up to await fetch(endpoint, ...)
Loop(c, a, endpoint, lg) ==
    IF a <= maxRetries
    THEN /\ pc' = [pc EXCEPT ![c] = "fetch"]
         /\ attempt' = [attempt EXCEPT ![c] = a]
         /\ log' = [log EXCEPT ![c] =
                Append(lg, Event("fetch", a, endpoint))]
         /\ resp' = [resp EXCEPT ![c] = None]
         /\ wakeAt' = [wakeAt EXCEPT ![c] = 0]
         /\ result' = [result EXCEPT ![c] = None]
    ELSE Return(c, MaxRetriesResult, lg)

\* await sleep(delay)
Sleep(c, lg) ==
    /\ pc' = [pc EXCEPT ![c] = "sleep"]
    /\ wakeAt' = [wakeAt EXCEPT ![c] = now + delay(attempt[c])]
    /\ log' = [log EXCEPT ![c] = Append(lg, Event("sleep", delay(attempt[c]), ""))]
    /\ resp' = [resp EXCEPT ![c] = None]
    /\ UNCHANGED <<attempt, result>>

\* the catch block giving up one attempt early
CatchGivesUpEarly(c, lg) ==
    IF attempt[c] >= maxRetries - 1 THEN Return(c, UnexpectedResult, lg) ELSE Sleep(c, lg)

\* the catch block
Catch(c, lg) ==
    IF attempt[c] = maxRetries THEN Return(c, UnexpectedResult, lg) ELSE Sleep(c, lg)

ApiKeys == {"", "arg-key"}
ModelIds == {"", "NANONETS-OCR2-7B"}

\* analyzeImage(imageBase64, mimeType, apiKey, modelId) up to its first await or return
Start(c, apiKey, modelId) ==
    /\ args' = [args EXCEPT ![c] = [apiKey |-> apiKey, modelId |-> modelId]]
    /\ LimiterCheck
    /\ IF ~CanMakeRequestRet(requests, now)
       THEN Return(c, RateLimitedResult(requests', now), <<>>)
       ELSE IF nanonetsKey(apiKey, env) = ""
       THEN Return(c, MissingKeyResult, <<>>)
       ELSE Loop(c, 0, getNanonetsEndpoint(modelId, env), <<>>)
    /\ UNCHANGED <<now, last, env, probe>>

\* a call by a caller that has made none yet
Invoke(c, apiKey, modelId) == pc[c] = "idle" /\ Start(c, apiKey, modelId)

\* the next call of a caller whose previous call has returned
InvokeNext(c, apiKey, modelId) == pc[c] = "done" /\ Start(c, apiKey, modelId)

Statuses == {200, 400, 429}
ErrorBodies == {"", "Invalid Model ID", "Rate limit reached", Repeat("x", 501)}
JsonBodies ==
    { JObj([text |-> JStr("A")]),
      JObj([lines |-> JArr(<<JObj([text |-> JStr("A")]), JObj([text |-> JStr("B ")])>>)]),
      JObj([pages |-> JArr(<<>>)]) }

\* fetch resolves with a response
FetchReturns(c, status) ==
    /\ pc[c] = "fetch"
    /\ resp' = [resp EXCEPT ![c] = Some([status |-> status, ok |-> status \in 200 .. 299])]
    /\ pc' = [pc EXCEPT ![c] = IF status \in 200 .. 299 THEN "json" ELSE "text"]
    /\ UNCHANGED <<now, limiterVars, env, probe, args, attempt, wakeAt, result, log>>

\* the awaits inside the try block
Awaits == {"fetch", "text", "json"}

\* the body reads outside the try block
ThrowsOutsideTry(c) ==
    /\ pc[c] \in Awaits
    /\ IF pc[c] = "fetch"
       THEN Catch(c, Append(log[c], Event("throw", attempt[c], pc[c])))
       ELSE Return(c, UnexpectedResult, Append(log[c], Event("throw", attempt[c], pc[c])))
    /\ UNCHANGED <<now, limiterVars, env, probe, args>>

\* fetch, response.text() or response.json() rejects (the event keeps the await
\* that rejected)
Throws(c) ==
    /\ pc[c] \in Awaits
    /\ Catch(c, Append(log[c], Event("throw", attempt[c], pc[c])))
    /\ UNCHANGED <<now, limiterVars, env, probe, args>>

\* the !response.ok branch without the `attempt < maxRetries` test
TextReturnsRetriesLast(c, errorText) ==
    /\ pc[c] = "text"
    /\ LET status == resp[c].v.status
           shouldRetry == isRateLimitError([code |-> status, message |-> errorText])
       IN  IF shouldRetry
           THEN Sleep(c, Append(log[c], Event("retry", attempt[c], "")))
           ELSE Return(c, ApiErrorResult(status, errorText),
                       Append(log[c], Event("text", status, errorText)))
    /\ UNCHANGED <<now, limiterVars, env, probe, args>>

\* response.text() resolves: the !response.ok branch
TextReturns(c, errorText) ==
    /\ pc[c] = "text"
    /\ LET status == resp[c].v.status
           shouldRetry == isRateLimitError([code |-> status, message |-> errorText])
       IN  IF shouldRetry /\ attempt[c] < maxRetries
           THEN Sleep(c, Append(log[c], Event("retry", attempt[c], "")))
           ELSE Return(c, ApiErrorResult(status, errorText),
                       Append(log[c], Event("text", status, errorText)))
    /\ UNCHANGED <<now, limiterVars, env, probe, args>>

\* response.json() resolves, an empty extraction being retried
JsonReturnsRetriesEmpty(c, data) ==
    /\ pc[c] = "json"
    /\ IF ~extractTextFromNanonets(data).some /\ attempt[c] < maxRetries
       THEN Sleep(c, Append(log[c], Event("json", resp[c].v.status, data)))
       ELSE Return(c, ExtractedResult(data), Append(log[c], Event("json", resp[c].v.status, data)))
    /\ UNCHANGED <<now, limiterVars, env, probe, args>>

\* response.json() resolves
JsonReturns(c, data) ==
    /\ pc[c] = "json"
    /\ Return(c, ExtractedResult(data), Append(log[c], Event("json", resp[c].v.status, data)))
    /\ UNCHANGED <<now, limiterVars, env, probe, args>>

\* the next iteration asking the limiter again
WakeRecordsAgain(c) ==
    /\ pc[c] = "sleep"
    /\ now >= wakeAt[c]
    /\ Loop(c, attempt[c] + 1, getNanonetsEndpoint(args[c].modelId, env), log[c])
    /\ LimiterCheck
    /\ UNCHANGED <<now, last, env, probe, args>>

\* the next iteration without attempt++
WakeSameAttempt(c) ==
    /\ pc[c] = "sleep"
    /\ now >= wakeAt[c]
    /\ Loop(c, attempt[c], getNanonetsEndpoint(args[c].modelId, env), log[c])
    /\ UNCHANGED <<now, limiterVars, env, probe, args>>

\* the sleep timer fires: attempt++ and the next iteration
Wake(c) ==
    /\ pc[c] = "sleep"
    /\ now >= wakeAt[c]
    /\ Loop(c, attempt[c] + 1, getNanonetsEndpoint(args[c].modelId, env), log[c])
    /\ UNCHANGED <<now, limiterVars, env, probe, args>>

\* every step of the calls in `calls`, with the arguments and the transport's answers
\* drawn from the given sets, and the awaits that may reject from `rejecting`
NextOf(calls, apiKeys, modelIds, statuses, errorTexts, jsons, rejecting) ==
    \/ Tick
    \/ \E c \in calls, apiKey \in apiKeys, modelId \in modelIds : Invoke(c, apiKey, modelId)
    \/ \E c \in calls, status \in statuses : FetchReturns(c, status)
    \/ \E c \in calls : pc[c] \in rejecting /\ Throws(c)
    \/ \E c \in calls, errorText \in errorTexts : TextReturns(c, errorText)
    \/ \E c \in calls, data \in jsons : JsonReturns(c, data)
    \/ \E c \in calls : Wake(c)

\* one caller awaiting each analyzeImage call before making the next
Next ==
    \/ NextOf({1}, ApiKeys, ModelIds, Statuses, ErrorBodies, JsonBodies, Awaits)
    \/ \E apiKey \in ApiKeys, modelId \in ModelIds : InvokeNext(1, apiKey, modelId)

Spec == Init /\ [][Next]_vars

\* several callers, their calls in flight together
NextInterleaved ==
    \/ NextOf(Calls, {""}, {""}, {200, 429}, {""}, {JObj([text |-> JStr("A")])}, {"fetch"})
    \/ \E c \in Calls : InvokeNext(c, "", "")

InitInterleaved == Init /\ env = [key |-> "env-key", model |-> ""]

SpecInterleaved == InitInterleaved /\ [][NextInterleaved]_vars

----------------------------------------------------------------------------
(* The backoff delay on its own, over a range of configurations *)

BaseDelays == {500, 1000, 1500}
Multipliers == {1, 2, 3}
DelayCaps == {1000, 4000, 10000}

InitBackoff ==
    /\ InitProgram
    /\ env = [key |-> "", model |-> ""]
    /\ probe \in [fn : {"delay"}, baseDelay : BaseDelays, backoffMultiplier : Multipliers,
                  maxDelay : DelayCaps, delays : {<<>>}]

\* the delay of the next attempt index, appended to those of the indices before it
NextDelay ==
    /\ Len(probe.delays) <= MaxAttemptIndex
    /\ probe' = [probe EXCEPT !.delays =
            Append(@, BackoffDelay(probe.baseDelay, probe.backoffMultiplier, probe.maxDelay,
                                   Len(probe.delays)))]
    /\ UNCHANGED <<now, limiterVars, env, callVars>>

SpecBackoff == InitBackoff /\ [][NextDelay]_vars

----------------------------------------------------------------------------
(* Properties of the RateLimiter *)

\* the admitted timestamps that lie in the window of windowMs trailing time T
InWindow(T) == {i \in 1 .. Len(admitted) : admitted[i] <= T /\ T - admitted[i] < windowMs}

WindowEnds == {admitted[i] : i \in 1 .. Len(admitted)} \cup {now}

\* C1: over any sequence of canMakeRequest calls at non-decreasing clock values, the
\* calls admitted with a timestamp in any trailing window of windowMs (the instants T
\* - windowMs < t <= T) number at most maxRequests.
C1_WindowCap == \A T \in WindowEnds : Cardinality(InWindow(T)) <= maxRequests

\* a denial has happened and, later windows having opened, more than maxRequests
\* calls have been admitted in all
C1_Witness ==
    /\ last.op = "canMakeRequest"
    /\ ~last.ret
    /\ Len(admitted) > maxRequests

\* the timestamps of record reqs that are younger than windowMs at time t, in order
Younger(reqs, t) == SelectSeq(reqs, LAMBDA x : t - x < windowMs)

\* C8: canMakeRequest returns true exactly when fewer than maxRequests timestamps
\* remain after pruning; on true the record is the pruned record with the current
\* time appended, on false it is the pruned record and nothing else.
C8_CheckAndRecord ==
    last.op = "canMakeRequest" =>
        /\ last.ret <=> Len(Younger(last.before, last.at)) < maxRequests
        /\ last.ret => requests = Younger(last.before, last.at) \o <<last.at>>
        /\ ~last.ret => requests = Younger(last.before, last.at)

\* a denial on a full record, after earlier calls pruned aged timestamps and admitted
C8_Witness ==
    /\ last.op = "canMakeRequest"
    /\ ~last.ret
    /\ Len(last.before) = maxRequests
    /\ Len(admitted) > maxRequests

Oldest(reqs) == CHOOSE x \in {reqs[i] : i \in 1 .. Len(reqs)} : \A i \in 1 .. Len(reqs) : x <= reqs[i]

\* what getTimeUntilNextRequest is to return on record reqs at time t
WaitsRight(reqs, t, wait) ==
    \/ /\ wait = 0
       /\ Len(Younger(reqs, t)) < maxRequests
    \/ /\ wait > 0
       /\ Len(Younger(reqs, t)) >= maxRequests
       /\ wait = windowMs - (t - Oldest(reqs))

\* C9: in every limiter state and at every clock value getTimeUntilNextRequest returns 0
\* exactly when a canMakeRequest call at that instant would admit, and otherwise the
\* positive time until the oldest recorded timestamp leaves the window, although it
\* reads the record unpruned.
C9_WaitTime ==
    /\ WaitsRight(requests, now, getTimeUntilNextRequest(requests, now))
    /\ getTimeUntilNextRequest(requests, now) = 0 <=> CanMakeRequestRet(requests, now)
    /\ last.op = "getTimeUntilNextRequest" => WaitsRight(last.before, last.at, last.ret)

\* getTimeUntilNextRequest has returned 0 on a full record whose timestamps have all aged
\* out but have not been pruned
C9_Witness ==
    /\ last.op = "getTimeUntilNextRequest"
    /\ last.ret = 0
    /\ Len(last.before) = maxRequests
    /\ \A i \in 1 .. Len(last.before) : last.at - last.before[i] > windowMs

----------------------------------------------------------------------------
(* Properties of analyzeImage *)

Done(c) == pc[c] = "done"

EventsOf(c, kind) == SelectSeq(log[c], LAMBDA ev : ev.e = kind)

\* the transport calls call c has made
Fetches(c) == Len(EventsOf(c, "fetch"))

\* the durations call c has slept, in order
Sleeps(c) == [i \in 1 .. Len(EventsOf(c, "sleep")) |-> EventsOf(c, "sleep")[i].n]

IsFailure(res) == ~res.text.some /\ res.error.some /\ res.error.v # ""
IsSuccess(res) == res.text.some /\ res.text.v # "" /\ ~res.error.some

\* the model identifier the call resolves is the placeholder name, in any case
IsPlaceholder(modelId) == toLowerCase(modelId) = toLowerCase("Nanonets-ocr2-7B")

\* C2: a call with no API key resolvable and a valid model identifier returns the
\* missing-credentials result without a transport call, and leaves the limiter's
\* record as it found it.
C2_MissingKeyKeepsSlot ==
    [][\A c \in Calls, apiKey \in ApiKeys, modelId \in ModelIds :
          ( /\ pc[c] \in {"idle", "done"}
            /\ Start(c, apiKey, modelId)
            /\ nanonetsKey(apiKey, env) = ""
            /\ ~IsPlaceholder(resolvedModelId(modelId, env)) )
          => /\ result'[c] = Some(MissingKeyResult)
             /\ log'[c] = <<>>
             /\ requests' = requests]_vars

\* C3: a call whose resolved model identifier is "Nanonets-ocr2-7B" in any case makes
\* no transport call and returns a {text: null, error} result.
C3_PlaceholderModelRejected ==
    \A c \in Calls :
        (pc[c] # "idle" /\ IsPlaceholder(resolvedModelId(args[c].modelId, env)))
        => /\ Fetches(c) = 0
           /\ Done(c)
           /\ IsFailure(result[c].v)

\* call c was answered by retryable non-2xx responses and then by a 2xx response
\* whose body carries text, and by nothing else
RetriedThenSucceeded(c) ==
    /\ Done(c)
    /\ Len(log[c]) > 0
    /\ log[c][Len(log[c])].e = "json"
    /\ extractTextFromNanonets(log[c][Len(log[c])].d).some
    /\ EventsOf(c, "throw") = <<>>

\* C4: a call answered by a retryable non-2xx status on attempts 0..k-1 and by a 2xx
\* response with extractable text on attempt k <= maxRetries returns that text, has
\* made k+1 transport calls and has slept k times, the i-th sleep (i = 0..k-1) for
\* min(baseDelay * backoffMultiplier^i, maxDelay).
C4_RetryThenSuccess ==
    \A c \in Calls :
        RetriedThenSucceeded(c) =>
            LET k == Len(EventsOf(c, "retry"))
            IN  /\ k <= maxRetries
                /\ result[c].v =
                     [text |-> extractTextFromNanonets(log[c][Len(log[c])].d), error |-> None]
                /\ Fetches(c) = k + 1
                /\ Sleeps(c) = [i \in 1 .. k |->
                        IF baseDelay * backoffMultiplier ^ (i - 1) < maxDelay
                        THEN baseDelay * backoffMultiplier ^ (i - 1)
                        ELSE maxDelay]

\* the success came on the last attempt, after maxRetries retryable answers
C4_Witness ==
    \E c \in Calls : RetriedThenSucceeded(c) /\ Len(EventsOf(c, "retry")) = maxRetries

\* call c got a non-retryable non-2xx answer to its first attempt
FirstAnswerTerminal(c) ==
    /\ Done(c)
    /\ Len(log[c]) >= 2
    /\ log[c][1].e = "fetch"
    /\ log[c][2].e = "text"
    /\ ~isRateLimitError([code |-> log[c][2].n, message |-> log[c][2].d])

\* C5: when the first attempt is answered by a non-2xx status classified as
\* non-retryable, the call makes exactly one transport call, never sleeps, and
\* returns {text: null, error} whose error holds the first 500 characters of the
\* body at most (a generic message when the body is empty).
C5_TerminalStatus ==
    \A c \in Calls :
        FirstAnswerTerminal(c) =>
            LET body == log[c][2].d
                shown == IF body = "" THEN "Failed to call Nanonets OCR API"
                         ELSE IF Len(body) > 500 THEN SubSeq(body, 1, 500)
                         ELSE body
            IN  /\ Len(log[c]) = 2
                /\ Fetches(c) = 1
                /\ Sleeps(c) = <<>>
                /\ IsFailure(result[c].v)
                /\ Contains(result[c].v.error.v, shown)
                /\ Len(body) > 500 => ~Contains(result[c].v.error.v, SubSeq(body, 1, 501))

\* the body was longer than 500 characters
C5_Witness == \E c \in Calls : FirstAnswerTerminal(c) /\ Len(log[c][2].d) > 500

\* C6: the delays min(baseDelay * backoffMultiplier^attempt, maxDelay) of the attempt
\* indices 0, 1, 2, ... never decrease and never exceed maxDelay; with baseDelay 1000,
\* backoffMultiplier 2 and maxDelay 10000 those of indices 0..4 are 1000, 2000, 4000,
\* 8000, 10000.
C6_BackoffMonotoneCapped ==
    probe.fn = "delay" =>
        /\ \A i \in 1 .. Len(probe.delays) : probe.delays[i] <= probe.maxDelay
        /\ \A i \in 1 .. Len(probe.delays) - 1 : probe.delays[i] <= probe.delays[i + 1]
        /\ ( /\ probe.baseDelay = 1000
              /\ probe.backoffMultiplier = 2
              /\ probe.maxDelay = 10000
              /\ Len(probe.delays) >= 5 )
           => SubSeq(probe.delays, 1, 5) = <<1000, 2000, 4000, 8000, 10000>>

\* the five delays of the example, the last of them capped
C6_Witness ==
    /\ probe.fn = "delay"
    /\ probe.baseDelay = 1000
    /\ probe.backoffMultiplier = 2
    /\ probe.maxDelay = 10000
    /\ Len(probe.delays) = 5
    /\ probe.delays[5] = probe.maxDelay

\* C7: every analyzeImage call ends by returning a result, and the result is either
\* {text: non-empty string} with no error or {text: null, error: non-empty string}.
C7_UniformResult ==
    \A c \in Calls :
        /\ pc[c] \in {"idle", "fetch", "text", "json", "sleep", "done"}
        /\ Done(c) <=> result[c].some
        /\ Done(c) => ( /\ IsSuccess(result[c].v) \/ IsFailure(result[c].v)
                        /\ ~(IsSuccess(result[c].v) /\ IsFailure(result[c].v)) )

\* a call whose every attempt ended in a transport exception has returned
C7_Witness ==
    \E c \in Calls :
        /\ Done(c)
        /\ Len(EventsOf(c, "throw")) = maxRetries + 1
        /\ IsFailure(result[c].v)

InFlight(c) == pc[c] \in {"fetch", "text", "json", "sleep"}

\* C10: with several calls in flight, interleaved at their awaits, the shared record
\* never holds more than maxRequests timestamps and no window of windowMs has more
\* than maxRequests admitted calls.
C10_InterleavedCap ==
    /\ Len(requests) <= maxRequests
    /\ \A T \in WindowEnds : Cardinality(InWindow(T)) <= maxRequests
    /\ Cardinality({c \in Calls : InFlight(c)}) <= Len(admitted)

\* while one call is asleep between attempts and the record is full, another caller's
\* call has been denied before any transport call
C10_Witness ==
    \E c, d \in Calls :
        /\ c # d
        /\ pc[c] = "sleep"
        /\ Done(d)
        /\ IsFailure(result[d].v)
        /\ log[d] = <<>>
        /\ Len(requests) = maxRequests
        /\ now < wakeAt[c]

----------------------------------------------------------------------------
(* Properties of the retry loop *)

\* call c takes a step
Steps(c) == pc'[c] # pc[c] \/ log'[c] # log[c] \/ attempt'[c] # attempt[c]

\* C11: no step of a call in flight (a transport answer, a rejection, the start or
\* the end of a backoff sleep) changes the limiter's record, and the step that admits
\* a call into the loop records one timestamp, the clock value at admission.
C11_RetriesLeaveRecord ==
    [][\A c \in Calls :
          /\ (InFlight(c) /\ Steps(c)) => (requests' = requests /\ admitted' = admitted)
          /\ (~InFlight(c) /\ InFlight(c)') =>
                /\ admitted' = Append(admitted, now)
                /\ requests' = Append(Prune(requests, now), now)]_vars

\* a call has made every attempt and slept between them, and the limiter has
\* recorded one timestamp in all
C11_Witness ==
    \E c \in Calls :
        /\ Fetches(c) = maxRetries + 1
        /\ Len(Sleeps(c)) = maxRetries
        /\ Len(admitted) = 1
        /\ Len(requests) = 1

----------------------------------------------------------------------------
(* Termination of a call whose awaits all complete *)

\* the clock past MaxClock, for as long as a pending sleep timer needs it
Elapse ==
    /\ now + TickMs > MaxClock
    /\ \E c \in Calls : pc[c] = "sleep" /\ now < wakeAt[c]
    /\ now' = now + TickMs
    /\ UNCHANGED <<limiterVars, env, callVars, probe>>

\* the promise call c awaits settles, one way or another
Settles(c) ==
    \/ \E status \in Statuses : FetchReturns(c, status)
    \/ TextReturns(c, "")
    \/ \E data \in JsonBodies : JsonReturns(c, data)
    \/ Throws(c)

\* one call, answered by a 2xx, a retryable or a non-retryable status or a rejection
NextFair ==
    \/ NextOf({1}, {""}, {""}, Statuses, {""}, JsonBodies, Awaits)
    \/ Elapse

\* time passes, every transport promise settles and every sleep timer fires
Fairness ==
    /\ WF_vars(Tick)
    /\ WF_vars(Elapse)
    /\ \A c \in Calls : WF_vars(Settles(c)) /\ WF_vars(Wake(c))

SpecFair == InitInterleaved /\ [][NextFair]_vars /\ Fairness

\* the transport calls of call c so far carry the attempt indices 0, 1, 2, ... in
\* this order and are maxRetries + 1 at most
AttemptsInOrder(c) ==
    LET fetches == EventsOf(c, "fetch")
    IN  /\ Len(fetches) <= maxRetries + 1
        /\ \A i \in 1 .. Len(fetches) : fetches[i].n = i - 1

\* C12: whatever the transport answers, if every transport promise settles and every
\* sleep ends then every call that has begun returns a result, having made
\* maxRetries + 1 transport calls at most, their attempt indices 0, 1, .. in
\* increasing order with none repeated.
C12_Terminates ==
    /\ [](\A c \in Calls : AttemptsInOrder(c))
    /\ \A c \in Calls : InFlight(c) ~> (Done(c) /\ result[c].some)

\* a call has returned after maxRetries + 1 transport calls, the answers to them a
\* mix of retryable statuses and exceptions, its last sleep ending after MaxClock
C12_Witness ==
    \E c \in Calls :
        /\ Done(c)
        /\ Fetches(c) = maxRetries + 1
        /\ EventsOf(c, "retry") # <<>>
        /\ EventsOf(c, "throw") # <<>>
        /\ now > MaxClock

----------------------------------------------------------------------------
(* extractTextFromNanonets on its own, over a set of decoded response trees *)

\* no field, or the field `name` with one of the values
Opt(name, values) == {<<>>} \cup {name :> v : v \in values}

ArrayNames == <<"result", "results", "predictions", "fields", "pages", "page_data", "lines">>

\* objects with own text fields only
SmallObjects ==
    {JObj(a @@ b) : a \in Opt("text", {JStr("A"), JStr("B "), JNum(3)}),
                    b \in Opt("fullText", {JStr("F")})}

Elements == SmallObjects \cup {JStr("S"), JStr(" "), JNull, JArr(<<JStr("X")>>)}

PairElements == {JObj([text |-> JStr("A")]), JObj([text |-> JStr("B ")]), JStr(" ")}

Collections ==
    {<<>>} \cup {<<e>> : e \in Elements} \cup {<<d, e>> : d \in PairElements, e \in PairElements}

Trees ==
    \* objects with an own text field and two collections
    {JObj(a @@ b @@ c) :
        a \in Opt("ocr_text", {JStr(" O ")}),
        b \in Opt("result", {JStr("R"), JArr(<<JStr("R"), JNull>>)}),
        c \in Opt("lines", {JArr(elems) : elems \in Collections})}
    \* two collections under each pair of the seven names
    \cup {JObj((ArrayNames[i] :> JArr(<<JStr(ArrayNames[i])>>))
                 @@ (ArrayNames[j] :> JArr(<<JStr(ArrayNames[j])>>))) : i, j \in 1 .. 7}
    \* a page holding lines
    \cup {JObj([pages |-> JArr(<<JObj([text |-> JStr("P"), lines |-> JArr(elems)])>>)]) :
            elems \in Collections}
    \* values that are not objects
    \cup {JNull, JStr("A"), JStr(""), JNum(0), JNum(7), JArr(<<JStr("A")>>),
          JObj([pages |-> JArr(<<>>)])}

InitExtract ==
    /\ InitProgram
    /\ env = [key |-> "", model |-> ""]
    /\ probe \in [fn : {"extract"}, tree : Trees, outs : {<<>>}]

\* one more run of the extractor on the tree
RunExtract ==
    /\ Len(probe.outs) < MaxRuns
    /\ probe' = [probe EXCEPT !.outs = Append(@, extractTextFromNanonets(probe.tree))]
    /\ UNCHANGED <<now, limiterVars, env, callVars>>

SpecExtract == InitExtract /\ [][RunExtract]_vars

RECURSIVE Flatten(_)
Flatten(seqs) == IF seqs = <<>> THEN <<>> ELSE Head(seqs) \o Flatten(Tail(seqs))

\* the fragments of the reference traversal of a node, in order
RECURSIVE Fragments(_)
Fragments(node) ==
    IF node.t = "string" THEN <<node.v>>
    ELSE IF node.t # "object" THEN <<>>
    ELSE
        LET Has(name, type) == name \in DOMAIN node.f /\ node.f[name].t = type
            own == Flatten([i \in 1 .. 3 |->
                      LET name == <<"text", "ocr_text", "fullText">>[i]
                      IN  IF Has(name, "string") THEN <<node.f[name].v>> ELSE <<>>])
            nested == Flatten([i \in 1 .. 7 |->
                      LET name == ArrayNames[i]
                      IN  IF Has(name, "array")
                          THEN Flatten([j \in 1 .. Len(node.f[name].a) |->
                                           Fragments(node.f[name].a[j])])
                          ELSE <<>>])
        IN  own \o nested

\* the fragments trimmed, the empty ones dropped, the rest joined by newlines
Reference(node) ==
    LET trimmed == [i \in 1 .. Len(Fragments(node)) |-> trim(Fragments(node)[i])]
        kept == SelectSeq(trimmed, LAMBDA x : x # "")
        Joined[i \in 1 .. Len(kept)] == IF i = 1 THEN kept[1] ELSE Joined[i - 1] \o "\n" \o kept[i]
    IN  IF kept = <<>> THEN None ELSE Some(Joined[Len(kept)])

\* C13: on every tree of the set extractTextFromNanonets returns the same value on
\* each run, and the value is that of the reference traversal (a string gives
\* itself; an object its string-typed text, ocr_text, fullText and then the elements
\* of its array-typed result, results, predictions, fields, pages, page_data, lines,
\* recursively; fragments trimmed, empty ones dropped, the rest joined by "\n", null
\* when none is left). {lines: [{text: "A"}, {text: "B "}]} gives "A\nB"; {} and
\* {pages: []} give null.
C13_ExtractorReference ==
    probe.fn = "extract" =>
        \A i \in 1 .. Len(probe.outs) :
            /\ probe.outs[i] = probe.outs[1]
            /\ probe.outs[i] = Reference(probe.tree)
            /\ probe.tree = JObj([lines |-> JArr(<<JObj([text |-> JStr("A")]),
                                                   JObj([text |-> JStr("B ")])>>)])
                 => probe.outs[i] = Some("A\nB")
            /\ probe.tree \in {JObj(<<>>), JObj([pages |-> JArr(<<>>)])}
                 => probe.outs[i] = None

\* the extractor has run MaxRuns times on a tree with an own text field, a collection
\* holding null and a collection holding a blank string
C13_Witness ==
    /\ probe.fn = "extract"
    /\ Len(probe.outs) >= MaxRuns
    /\ probe.tree = JObj([ocr_text |-> JStr(" O "),
                          result |-> JArr(<<JStr("R"), JNull>>),
                          lines |-> JArr(<<JStr(" "), JObj([text |-> JStr("B ")])>>)])
    /\ probe.outs[1] = Some("O\nR\nB")

----------------------------------------------------------------------------
(* The outcomes of the attempts *)

LastEvent(c) == log[c][Len(log[c])]

\* every one of the maxRetries + 1 attempts of call c was answered by a non-2xx
\* response that isRateLimitError classifies as retryable
AllRetryable(c) ==
    /\ Done(c)
    /\ Fetches(c) = maxRetries + 1
    /\ Len(EventsOf(c, "retry")) = maxRetries
    /\ LastEvent(c).e = "text"
    /\ isRateLimitError([code |-> LastEvent(c).n, message |-> LastEvent(c).d])

\* C14 as stated: when every one of the maxRetries + 1 attempts is a retryable
\* failure the call returns the configured maxRetriesExceeded message.
C14_ExhaustedMessage ==
    \A c \in Calls :
        AllRetryable(c) => result[c].v = [text |-> None, error |-> Some(maxRetriesExceeded)]

\* C14, amended: when every one of the maxRetries + 1 attempts is a retryable failure
\* the call sleeps after each of the first maxRetries and returns the API error of the
\* last one, with its status; no call returns the maxRetriesExceeded message.
C14_LastFailureReturned ==
    \A c \in Calls :
        /\ AllRetryable(c) =>
              /\ IsFailure(result[c].v)
              /\ Contains(result[c].v.error.v,
                          "API Error (" \o ToString(LastEvent(c).n) \o "): ")
              /\ Len(Sleeps(c)) = maxRetries
        /\ Done(c) => result[c].v.error # Some(maxRetriesExceeded)

\* a call whose every attempt was answered by status 429 has returned
C14_Witness ==
    \E c \in Calls : AllRetryable(c) /\ LastEvent(c).n = 429 /\ result[c].some

\* the positions in the log of call c at which the await `stage` rejected
ThrowsAt(c, stage) == {j \in 1 .. Len(log[c]) : log[c][j].e = "throw" /\ log[c][j].d = stage}

\* what follows the exception logged at position j of call c: a sleep of the backoff
\* delay of its attempt index i and then attempt i + 1, or, on the last attempt, the
\* return of the generic result with no sleep
CaughtAt(c, j) ==
    LET i == log[c][j].n
        expected == IF baseDelay * backoffMultiplier ^ i < maxDelay
                    THEN baseDelay * backoffMultiplier ^ i ELSE maxDelay
    IN  /\ i \in 0 .. maxRetries
        /\ i < maxRetries =>
              /\ Len(log[c]) > j
              /\ log[c][j + 1].e = "sleep"
              /\ log[c][j + 1].n = expected
              /\ Len(log[c]) = j + 1 => pc[c] = "sleep" /\ wakeAt[c] <= now + expected
              /\ Len(log[c]) > j + 1 => log[c][j + 2].e = "fetch" /\ log[c][j + 2].n = i + 1
        /\ i = maxRetries =>
              /\ Len(log[c]) = j
              /\ Done(c)
              /\ result[c].v = [text |-> None,
                      error |-> Some("An unexpected error occurred while processing the image.")]

\* C15: when the transport call of attempt i throws, the call sleeps
\* min(baseDelay * backoffMultiplier^i, maxDelay) and then makes attempt i + 1 if
\* i < maxRetries, and returns the "unexpected error" result without sleeping if
\* i = maxRetries; a call whose every transport call threw has made maxRetries + 1
\* of them, slept maxRetries times and returned that result.
C15_TransportThrows ==
    \A c \in Calls :
        /\ \A j \in ThrowsAt(c, "fetch") :
              /\ log[c][j - 1].e = "fetch"
              /\ log[c][j - 1].n = log[c][j].n
              /\ CaughtAt(c, j)
        /\ Cardinality(ThrowsAt(c, "fetch")) = Fetches(c) /\ Done(c) =>
              \/ Fetches(c) = 0
              \/ /\ Fetches(c) = maxRetries + 1
                 /\ Len(Sleeps(c)) = maxRetries
                 /\ result[c].v.error =
                        Some("An unexpected error occurred while processing the image.")

\* the transport call threw on every attempt and the call has returned
C15_Witness ==
    \E c \in Calls :
        /\ Done(c)
        /\ Cardinality(ThrowsAt(c, "fetch")) = maxRetries + 1
        /\ Len(Sleeps(c)) = maxRetries
        /\ IsFailure(result[c].v)

\* the positions in the log of call c at which a 2xx body was decoded and the
\* extractor found no text in it
NoTextAt(c) ==
    {j \in 1 .. Len(log[c]) :
        log[c][j].e = "json" /\ ~extractTextFromNanonets(log[c][j].d).some}

\* C16: when the body of a 2xx response yields no text the call returns the "no text
\* extracted" result at once, at any attempt index: the decoded body is the last
\* event of the call, no transport call and no sleep follow it.
C16_NoTextTerminal ==
    \A c \in Calls :
        \A j \in NoTextAt(c) :
            /\ j = Len(log[c])
            /\ log[c][j].n \in 200 .. 299
            /\ log[c][j - 1].e = "fetch"
            /\ Done(c)
            /\ wakeAt[c] = 0
            /\ result[c].v =
                   [text |-> None,
                    error |-> Some("No text extracted from the image. Try a clearer image or manual entry.")]

\* the empty 2xx answer came on the last attempt, after maxRetries sleeps
C16_Witness ==
    \E c \in Calls :
        /\ NoTextAt(c) # {}
        /\ log[c][Len(log[c]) - 1].n = maxRetries
        /\ Len(Sleeps(c)) = maxRetries

\* C17: a call given no modelId argument while the environment supplies no model
\* identifier makes no transport call and returns a {text: null, error} result.
C17_MissingModelRejected ==
    \A c \in Calls :
        (pc[c] # "idle" /\ args[c].modelId = "" /\ env.model = "")
        => /\ Fetches(c) = 0
           /\ Done(c)
           /\ IsFailure(result[c].v)

----------------------------------------------------------------------------
(* The record of the RateLimiter *)

\* C18: the record never holds more than maxRequests timestamps, its timestamps are
\* in non-decreasing order, and every timestamp a canMakeRequest call leaves in the
\* record is less than windowMs older than the clock value of that call.
C18_RecordInvariant ==
    /\ [](/\ Len(requests) <= maxRequests
          /\ \A i \in 1 .. Len(requests) - 1 : requests[i] <= requests[i + 1])
    /\ [][last'.op = "canMakeRequest" =>
            \A i \in 1 .. Len(requests') :
                /\ requests'[i] <= last'.at
                /\ last'.at - requests'[i] < windowMs]_vars

\* a canMakeRequest call on a full record has pruned the older timestamp, kept the
\* younger and recorded the clock value
C18_Witness ==
    /\ last.op = "canMakeRequest"
    /\ last.ret
    /\ Len(last.before) = maxRequests
    /\ Len(requests) = maxRequests
    /\ requests[1] = last.before[Len(last.before)]
    /\ requests[1] < requests[Len(requests)]
    /\ requests[Len(requests)] = last.at

\* the timestamps the last canMakeRequest call kept of the record it found
Retained == IF last.ret THEN SubSeq(requests, 1, Len(requests) - 1) ELSE requests

\* the age of the i-th timestamp of the record the last call found, at that call
AgeBefore(i) == last.at - last.before[i]

\* C19 as stated: a canMakeRequest check removes exactly the timestamps whose age is
\* strictly greater than windowMs; a timestamp aged exactly windowMs is retained and
\* counts against maxRequests.
C19_PruneStrictlyOlder ==
    last.op = "canMakeRequest" =>
        /\ Retained = SelectSeq(last.before, LAMBDA x : last.at - x <= windowMs)
        /\ last.ret <=>
             Cardinality({i \in 1 .. Len(last.before) : AgeBefore(i) <= windowMs}) < maxRequests

\* C19, amended: a canMakeRequest check removes exactly the timestamps whose age is
\* windowMs or more and retains every younger one, in order; a timestamp aged exactly
\* windowMs is removed and does not count against maxRequests.
C19_PruneAtLeastWindow ==
    last.op = "canMakeRequest" =>
        /\ Retained = SelectSeq(last.before, LAMBDA x : last.at - x < windowMs)
        /\ \A i \in 1 .. Len(last.before) :
              AgeBefore(i) >= windowMs => \A k \in 1 .. Len(Retained) : Retained[k] # last.before[i]
        /\ last.ret <=>
             Cardinality({i \in 1 .. Len(last.before) : AgeBefore(i) < windowMs}) < maxRequests

\* a check on a full record one of whose timestamps is exactly windowMs old has
\* removed that timestamp and admitted
C19_Witness ==
    /\ last.op = "canMakeRequest"
    /\ last.ret
    /\ Len(last.before) = maxRequests
    /\ \E i \in 1 .. Len(last.before) : AgeBefore(i) = windowMs
    /\ \A i \in 1 .. Len(last.before) : AgeBefore(i) <= windowMs

\* C20: a rejection of response.text() (non-2xx answer) or of response.json() (2xx
\* answer) is handled as a rejection of fetch is: on attempt i < maxRetries the call
\* sleeps the backoff delay of i and makes transport call i + 1, on attempt
\* maxRetries it returns the "unexpected error" result; so a 2xx answer whose body
\* cannot be decoded is retried.
C20_BodyReadThrows ==
    \A c \in Calls :
        \A j \in ThrowsAt(c, "text") \cup ThrowsAt(c, "json") :
            /\ log[c][j - 1].e = "fetch"
            /\ log[c][j - 1].n = log[c][j].n
            /\ CaughtAt(c, j)

\* a call has retried after an undecodable 2xx body on its first attempt and has
\* returned after the error body of its last attempt could not be read
C20_Witness ==
    \E c \in Calls :
        /\ Done(c)
        /\ \E j \in ThrowsAt(c, "json") :
              log[c][j].n = 0 /\ log[c][j + 1].e = "sleep" /\ log[c][j + 2].e = "fetch"
        /\ \E j \in ThrowsAt(c, "text") : log[c][j].n = maxRetries
        /\ IsFailure(result[c].v)

====
